---- MODULE Spec2Model ----
(***************************************************************************)
(* Model of the render-and-preview pipeline of handwrite_app.py:           *)
(*   WorkerThread   (src/handwrite_app.py:125-177)                         *)
(*   PreviewManager (src/handwrite_app.py:179-239)                         *)
(*   PreviewWidget  (src/handwrite_app.py:241-351)                         *)
(* The worker's run() is cut at every read of the shared flag              *)
(* is_cancelled, at every call into the external renderer and at every     *)
(* signal emission.  Signals emitted in the worker thread are posted to    *)
(* the event queue of the interactive thread and handled there in order.   *)
(***************************************************************************)
EXTENDS Integers, Sequences, FiniteSets, TLC

\* ---------------------------------------------------------------- bounds
MaxWorkers == 2
\* pages the renderer produces in all, over the workers of one pipeline run
MaxPages == 1
\* pages the renderer produces for the task of a single-task run
MaxTaskPages == 3
\* pages the renderer may yield for the task of ProgressSpec
MaxProgressPages == 29
\* longest page list handed to PreviewManager.set_pages in NavSpec
MaxNavPages == 3
\* most sections of the text and most formats of one batch export
MaxSections == 2
MaxFormats == 3

Workers == 1..MaxWorkers

\* ------------------------------------------------------- inputs (values)
\* A text is a sequence of characters.
Chars(n) == [i \in 1..n |-> "c"]
EmptyText == <<>>
\* line 143: the placeholder, a fixed text of six characters
PlaceholderText == <<"p1", "p2", "p3", "p4", "p5", "p6">>
Texts == {EmptyText, Chars(1), Chars(11), Chars(250)}
\* texts rendered into many pages
ProgressTexts == {Chars(50), Chars(100)}

\* A template carries the two settings the renderer is known to reject.
ValidTemplate == [font_size |-> 40, line_spacing |-> 60]
TightTemplate == [font_size |-> 40, line_spacing |-> 10]
Templates == {ValidTemplate, TightTemplate}

\* lines 1277-1279 and 1288: the text MainWindow.update_preview hands to
\* the preview for the text of the editor
PreviewLimit == 500
PreviewText(text) ==
  LET shown == IF text = EmptyText THEN PlaceholderText ELSE text
  IN  SubSeq(shown, 1, IF PreviewLimit < Len(shown) THEN PreviewLimit
                                                     ELSE Len(shown))

\* lines 1484-1489 with "<" for "<=" at line 1488
CreateTemplateStrictTest(settings) ==
  [font_size |-> settings.font_size,
   line_spacing |-> IF settings.line_spacing < settings.font_size
                    THEN (3 * settings.font_size) \div 2
                    ELSE settings.line_spacing]

\* lines 1484-1489 and 1498: the template made from the settings of the
\* window; a line spacing not above the font size becomes int(1.5 * size)
CreateTemplate(settings) ==
  [font_size |-> settings.font_size,
   line_spacing |-> IF settings.line_spacing <= settings.font_size
                    THEN (3 * settings.font_size) \div 2
                    ELSE settings.line_spacing]

\* what the editor and the settings panel may hold; the pipeline is run
\* with the empty editor, tasks with other texts are run alone (TaskInit)
EditorTexts == {EmptyText}
Settings == {ValidTemplate}
\* settings with a line spacing not above the font size
TightSettings == [font_size |-> 100, line_spacing |-> 60]

\* the (text, template) pairs handed to PreviewWidget.update_preview
\* (line 1288, its only caller)
Request(text, template) == [text |-> text, template |-> template]
PreviewRequests ==
  {Request(PreviewText(text), CreateTemplate(settings)) :
     text \in EditorTexts, settings \in Settings}

\* Messages are sets of the words they contain ("x" in msg is word \in msg).
SpacingRawMsg == {"font.size", "line_spacing", "raw"}
SizeOnlyRawMsg == {"font.size", "raw"}
OtherRawMsg == {"font", "raw"}
ClarifiedMsg == {"clarified"}
NoPreviewMsg == {"no_preview"}
NoImagesMsg == {"no_images"}
ExportFailedMsg == {"export_failed"}
EnterTextMsg == {"enter_text"}
AdjustedMsg == {"adjusted"}
NoMsg == {}

\* ------------------------------------------------------------ variables
VARIABLES
  task,             \* task[w]: the fields and the locals of WorkerThread w
  emitted,          \* emitted[w]: the signals w has emitted, in order
  nWorkers,         \* number of WorkerThread objects created so far
  worker,           \* PreviewWidget.worker (0 is None)
  mainPc,           \* position of the interactive thread
  pending,          \* arguments of the update_preview call blocked in wait()
  queue,            \* event queue of the interactive thread
  heard,            \* heard[w]: a signal of w has been handled
  preview_manager,  \* PreviewManager.pages and .current_page
  dialogValue,      \* dialogValue[w]: value of the progress dialog of w
  warning,          \* text of the last QMessageBox.warning
  slots,            \* slots[w]: whose handlers the signals of w are connected to
  worker_thread,    \* MainWindow.worker_thread (0 is None)
  progress_bar,     \* MainWindow.progress_bar: visible, value
  critical,         \* text of the last QMessageBox.critical
  exported,         \* the page lists FileManager.export_images has written
  window,           \* MainWindow: radio_preview, preview_timer, editor, settings
  nav,              \* the last call of a PreviewManager method and its result
  templ,            \* a create_template call: its settings and its template
  importer,         \* a FileManager.import_file call: file, loop, outcome
  batch             \* a MainWindow.batch_export call: loops, dialog, calls

\* the state of the export of MainWindow
exportVars == <<worker_thread, progress_bar, critical, exported>>

\* the state of the parts of the window that run no WorkerThread
sideVars == <<window, nav, templ, importer, batch>>

vars == <<task, emitted, nWorkers, worker, mainPc, pending, queue, heard,
          preview_manager, dialogValue, warning, slots, exportVars, sideVars>>

\* ------------------------------------------------------ small operators
Min(a, b) == IF a < b THEN a ELSE b
Max(a, b) == IF a > b THEN a ELSE b

RECURSIVE Pow2(_)
Pow2(n) == IF n = 0 THEN 1 ELSE 2 * Pow2(n - 1)

\* 2^s mod m
RECURSIVE PowMod2(_, _)
PowMod2(s, m) == IF s = 0 THEN 1 % m ELSE (2 * PowMod2(s - 1, m)) % m

\* largest k >= 0 with m * 2^k <= c   (c >= m)
RECURSIVE ExpUp(_, _, _)
ExpUp(c, m, k) == IF m * Pow2(k + 1) <= c THEN ExpUp(c, m, k + 1) ELSE k

\* smallest t >= 0 with c * 2^t >= m
RECURSIVE ExpDown(_, _, _)
ExpDown(c, m, t) == IF c * Pow2(t) < m THEN ExpDown(c, m, t + 1) ELSE t

\* binary exponent k of the quotient c / m:  2^k <= c/m < 2^(k+1)
QuotientExponent(c, m) == IF c >= m THEN ExpUp(c, m, 0) ELSE 0 - ExpDown(c, m, 0)

\* largest j with 2^j <= n
RECURSIVE FloorLog2(_, _)
FloorLog2(n, j) == IF Pow2(j + 1) <= n THEN FloorLog2(n, j + 1) ELSE j

\* line 161: int(chars_processed / text_length * 100) in binary64 arithmetic.
\* c / m is rounded to 53 bits, the product with 100 is rounded again, int()
\* truncates.  The two roundings can only matter when 100*c/m is an integer
\* n: the result is n - 1 when the quotient was rounded down by more than
\* half the distance between n and the double below it.
IntPercent(c, m) ==
  LET n == (100 * c) \div m
      k == QuotientExponent(c, m)
      rem == ((c % m) * PowMod2(52 - k, m)) % m
      j == FloorLog2(n, 0)
      gap == IF n = Pow2(j) THEN Pow2(j - k - 2) ELSE Pow2(j - k - 1)
  IN  IF (100 * c) % m # 0 THEN n
      ELSE IF rem = 0 \/ 2 * rem >= m THEN n
      ELSE IF 100 * rem > m * gap THEN n - 1
      ELSE n

\* line 150
ProgressStep(text_length) == Max(1, text_length \div 100)

\* line 161 with the cap at 100 instead of 95
ProgressCapHundred(chars_processed, text_length) ==
  Min(100, IntPercent(chars_processed, text_length))

\* line 161 without the cap
ProgressUncapped(chars_processed, text_length) ==
  IntPercent(chars_processed, text_length)

\* line 161
Progress(chars_processed, text_length) ==
  Min(95, IntPercent(chars_processed, text_length))

\* ------------------------------------------------- signals and requests
Signal(kind, progress, images, msg) ==
  [kind |-> kind, progress |-> progress, images |-> images, msg |-> msg]
ProgressSignal(v) == Signal("progress", v, <<>>, NoMsg)
ResultSignal(images) == Signal("result", 0, images, NoMsg)
ErrorSignal(msg) == Signal("error", 0, <<>>, msg)

\* a queued signal of task w
Event(w, kind, sig) == [task |-> w, kind |-> kind, sig |-> sig]

NoRequest == Request(EmptyText, ValidTemplate)

\* a page image produced by the renderer / the image drawn at lines 333-335
Page(w, no) == [kind |-> "page", task |-> w, no |-> no, msg |-> NoMsg]
ErrorImage(msg) == [kind |-> "error_image", task |-> 0, no |-> 0, msg |-> msg]

\* ------------------------------------------------ the external renderer
\* handwrite() rejects a template whose line spacing does not exceed the
\* font size, with a message naming font.size and line_spacing or one
\* naming font.size only; any call may fail for another reason.
RendererAccepts(template) == template.line_spacing > template.font_size

RendererMessages(template) ==
  IF RendererAccepts(template) THEN {OtherRawMsg}
  ELSE {SpacingRawMsg, SizeOnlyRawMsg}

\* ------------------------------------------------------- WorkerThread
\* lines 131-135; arg_text keeps the text the constructor was given and
\* handwritten lists the texts handwrite() has been called with
NewTask(text, template) ==
  [text |-> text, template |-> template, is_cancelled |-> FALSE,
   pc |-> "start", result |-> <<>>, chars_processed |-> 0,
   yielded |-> 0, error_msg |-> NoMsg, cancelAt |-> "never",
   arg_text |-> text, handwritten |-> <<>>]

NoTask == [NewTask(EmptyText, ValidTemplate) EXCEPT !.pc = "none"]

\* QThread.isRunning(): started and run() not yet returned
IsRunning(w) == task[w].pc \notin {"none", "done"}

Emit(w, sig) ==
  /\ emitted' = [emitted EXCEPT ![w] = Append(@, sig)]
  /\ queue' = Append(queue, Event(w, sig.kind, sig))

\* positions of run() from which no test of is_cancelled lies ahead
PastLastCheck == {"emit100", "emitResult", "except", "done"}

\* lines 175-177; cancelAt remembers whether run() still had a test of the
\* flag ahead of it ("early") or not ("late") at the first cancel()
Cancelled(t) ==
  [t EXCEPT !.is_cancelled = TRUE,
            !.cancelAt = IF t.cancelAt # "never" THEN @
                         ELSE IF t.pc \in PastLastCheck THEN "late"
                         ELSE "early"]

EffectiveTextUnchanged(text) == text

\* lines 142-143
EffectiveText(text) == IF text = EmptyText THEN PlaceholderText ELSE text

\* lines 140-151: result = [], the placeholder, the call of handwrite()
\* (which returns the lazy page sequence or raises), the locals of the
\* progress estimate
RunStart(w) ==
  /\ task[w].pc = "start"
  /\ \/ task' = [task EXCEPT
                     ![w].text = EffectiveText(@),
                     ![w].handwritten = Append(@, EffectiveText(task[w].text)),
                     ![w].result = <<>>,
                     ![w].chars_processed = 0,
                     ![w].pc = "next"]
     \/ \E m \in RendererMessages(task[w].template) :
          task' = [task EXCEPT
                     ![w].text = EffectiveText(@),
                     ![w].handwritten = Append(@, EffectiveText(task[w].text)),
                     ![w].result = <<>>,
                     ![w].error_msg = m,
                     ![w].pc = "except"]
  /\ UNCHANGED <<emitted, nWorkers, worker, mainPc, pending, queue, heard,
                 preview_manager, dialogValue, warning, slots, exportVars, sideVars>>

\* line 153: the for statement asks the renderer for its next page; the
\* renderer yields one (while more holds), ends the sequence, or raises
RunNextPageIf(w, more) ==
  /\ task[w].pc = "next"
  /\ \/ /\ RendererAccepts(task[w].template)
        /\ more
        /\ task' = [task EXCEPT ![w].yielded = @ + 1, ![w].pc = "check"]
     \/ /\ RendererAccepts(task[w].template)
        /\ task' = [task EXCEPT ![w].pc = "final"]
     \/ \E m \in RendererMessages(task[w].template) :
          task' = [task EXCEPT ![w].error_msg = m, ![w].pc = "except"]
  /\ UNCHANGED <<emitted, nWorkers, worker, mainPc, pending, queue, heard,
                 preview_manager, dialogValue, warning, slots, exportVars, sideVars>>

\* number of pages the renderer has produced for the workers 1..n
RECURSIVE YieldedUpTo(_)
YieldedUpTo(n) == IF n = 0 THEN 0 ELSE task[n].yielded + YieldedUpTo(n - 1)

RunNextPage(w) == RunNextPageIf(w, YieldedUpTo(MaxWorkers) < MaxPages)

\* lines 154-155
RunCheckCancel(w) ==
  /\ task[w].pc = "check"
  /\ task' = [task EXCEPT ![w].pc = IF task[w].is_cancelled THEN "final"
                                                           ELSE "body"]
  /\ UNCHANGED <<emitted, nWorkers, worker, mainPc, pending, queue, heard,
                 preview_manager, dialogValue, warning, slots, exportVars, sideVars>>

\* lines 157-162 without the append of line 157
RunBodyDropsPage(w) ==
  /\ task[w].pc = "body"
  /\ LET text_length == Len(task[w].text)
         chars == task[w].chars_processed + ProgressStep(text_length)
     IN  /\ task' = [task EXCEPT ![w].chars_processed = chars,
                                 ![w].pc = "next"]
         /\ Emit(w, ProgressSignal(Progress(chars, text_length)))
  /\ UNCHANGED <<nWorkers, worker, mainPc, pending, heard,
                 preview_manager, dialogValue, warning, slots, exportVars, sideVars>>

\* lines 157-162 with the page put in front of the list (insert(0, page))
RunBodyPrepends(w) ==
  /\ task[w].pc = "body"
  /\ LET text_length == Len(task[w].text)
         chars == task[w].chars_processed + ProgressStep(text_length)
     IN  /\ task' = [task EXCEPT
                       ![w].result = <<Page(w, task[w].yielded)>> \o @,
                       ![w].chars_processed = chars,
                       ![w].pc = "next"]
         /\ Emit(w, ProgressSignal(Progress(chars, text_length)))
  /\ UNCHANGED <<nWorkers, worker, mainPc, pending, heard,
                 preview_manager, dialogValue, warning, slots, exportVars, sideVars>>

\* lines 157-162
RunBody(w) ==
  /\ task[w].pc = "body"
  /\ LET text_length == Len(task[w].text)
         chars == task[w].chars_processed + ProgressStep(text_length)
     IN  /\ task' = [task EXCEPT
                       ![w].result = Append(@, Page(w, task[w].yielded)),
                       ![w].chars_processed = chars,
                       ![w].pc = "next"]
         /\ Emit(w, ProgressSignal(Progress(chars, text_length)))
  /\ UNCHANGED <<nWorkers, worker, mainPc, pending, heard,
                 preview_manager, dialogValue, warning, slots, exportVars, sideVars>>

\* line 164 without the test of the flag
RunFinalCheckIgnoresFlag(w) ==
  /\ task[w].pc = "final"
  /\ task' = [task EXCEPT ![w].pc = "emit100"]
  /\ UNCHANGED <<emitted, nWorkers, worker, mainPc, pending, queue, heard,
                 preview_manager, dialogValue, warning, slots, exportVars, sideVars>>

\* line 164
RunFinalCheck(w) ==
  /\ task[w].pc = "final"
  /\ task' = [task EXCEPT ![w].pc = IF task[w].is_cancelled THEN "done"
                                                           ELSE "emit100"]
  /\ UNCHANGED <<emitted, nWorkers, worker, mainPc, pending, queue, heard,
                 preview_manager, dialogValue, warning, slots, exportVars, sideVars>>

\* lines 165-166 in the other order: the result first, then 100
RunEmit100AfterResult(w) ==
  /\ task[w].pc = "emit100"
  /\ task' = [task EXCEPT ![w].pc = "done"]
  /\ emitted' = [emitted EXCEPT
                   ![w] = Append(Append(@, ResultSignal(task[w].result)),
                                 ProgressSignal(100))]
  /\ queue' = Append(Append(queue, Event(w, "result", ResultSignal(task[w].result))),
                     Event(w, "progress", ProgressSignal(100)))
  /\ UNCHANGED <<nWorkers, worker, mainPc, pending, heard,
                 preview_manager, dialogValue, warning, slots, exportVars, sideVars>>

\* line 165
RunEmit100(w) ==
  /\ task[w].pc = "emit100"
  /\ task' = [task EXCEPT ![w].pc = "emitResult"]
  /\ Emit(w, ProgressSignal(100))
  /\ UNCHANGED <<nWorkers, worker, mainPc, pending, heard,
                 preview_manager, dialogValue, warning, slots, exportVars, sideVars>>

\* line 166
RunEmitResult(w) ==
  /\ task[w].pc = "emitResult"
  /\ task' = [task EXCEPT ![w].pc = "done"]
  /\ Emit(w, ResultSignal(task[w].result))
  /\ UNCHANGED <<nWorkers, worker, mainPc, pending, heard,
                 preview_manager, dialogValue, warning, slots, exportVars, sideVars>>

ErrorTextEitherWord(raw) ==
  IF "font.size" \in raw \/ "line_spacing" \in raw THEN ClarifiedMsg ELSE raw

\* lines 171-172
ErrorText(raw) ==
  IF "font.size" \in raw /\ "line_spacing" \in raw THEN ClarifiedMsg ELSE raw

\* lines 168-173 with the handler inside the loop body: the loop goes on
\* to the next page
RunExceptContinues(w) ==
  /\ task[w].pc = "except"
  /\ task' = [task EXCEPT ![w].pc = "next"]
  /\ Emit(w, ErrorSignal(ErrorText(task[w].error_msg)))
  /\ UNCHANGED <<nWorkers, worker, mainPc, pending, heard,
                 preview_manager, dialogValue, warning, slots, exportVars, sideVars>>

\* lines 168-173 with the handler inside the loop: run() goes on to line 164
RunExceptFallsThrough(w) ==
  /\ task[w].pc = "except"
  /\ task' = [task EXCEPT ![w].pc = "final"]
  /\ Emit(w, ErrorSignal(ErrorText(task[w].error_msg)))
  /\ UNCHANGED <<nWorkers, worker, mainPc, pending, heard,
                 preview_manager, dialogValue, warning, slots, exportVars, sideVars>>

\* lines 168-173 without the emit of line 173
RunExceptSilent(w) ==
  /\ task[w].pc = "except"
  /\ task' = [task EXCEPT ![w].pc = "done"]
  /\ UNCHANGED <<emitted, nWorkers, worker, mainPc, pending, queue, heard,
                 preview_manager, dialogValue, warning, slots, exportVars, sideVars>>

\* lines 168-173 followed by one more attempt: run() starts over
RunExceptRetries(w) ==
  /\ task[w].pc = "except"
  /\ task' = [task EXCEPT ![w].pc = IF Len(task[w].handwritten) < 2
                                    THEN "start" ELSE "done",
                          ![w].error_msg = NoMsg]
  /\ Emit(w, ErrorSignal(ErrorText(task[w].error_msg)))
  /\ UNCHANGED <<nWorkers, worker, mainPc, pending, heard,
                 preview_manager, dialogValue, warning, slots, exportVars, sideVars>>

\* lines 168-173
RunExcept(w) ==
  /\ task[w].pc = "except"
  /\ task' = [task EXCEPT ![w].pc = "done"]
  /\ Emit(w, ErrorSignal(ErrorText(task[w].error_msg)))
  /\ UNCHANGED <<nWorkers, worker, mainPc, pending, heard,
                 preview_manager, dialogValue, warning, slots, exportVars, sideVars>>

\* ------------------------------------------------------ PreviewManager
\* lines 203-205
SetPages(images) == [pages |-> images, current_page |-> 0]

\* ------------------------------------------------------- PreviewWidget
\* lines 326-340: the state of the preview cache after the handler
\* lines 326-340 without the test of line 331
HandlePreviewErrorReplaces(pm, error_msg) ==
  SetPages(<<ErrorImage(error_msg)>>)

HandlePreviewError(pm, error_msg) ==
  IF pm.pages = <<>> THEN SetPages(<<ErrorImage(error_msg)>>) ELSE pm

\* lines 342-351: the state of the preview cache after the handler
HandlePreviewResult(pm, images) ==
  IF images = <<>> THEN HandlePreviewError(pm, NoPreviewMsg)
  ELSE SetPages(images)

\* the text shown by QMessageBox.warning (line 328) while handling a signal
WarningShown(sig) ==
  IF sig.kind = "error" THEN sig.msg
  ELSE IF sig.kind = "result" /\ sig.images = <<>> THEN NoPreviewMsg
  ELSE warning

\* lines 309-324: the new worker, its progress dialog, its connections, start()
StartWorker(tasks, text, template) ==
  LET n == nWorkers + 1
  IN  /\ task' = [tasks EXCEPT ![n] = NewTask(text, template)]
      /\ worker' = n
      /\ nWorkers' = n
      /\ dialogValue' = [dialogValue EXCEPT ![n] = 0]
      /\ heard' = [heard EXCEPT ![n] = FALSE]
      /\ slots' = [slots EXCEPT ![n] = "preview"]
      /\ mainPc' = "idle"
      /\ pending' = NoRequest

\* lines 302-324 without the cancel() of line 306
UpdatePreviewNoCancel(text, template) ==
  /\ mainPc = "idle"
  /\ nWorkers < MaxWorkers
  /\ IF worker # 0 /\ IsRunning(worker)
     THEN /\ mainPc' = "wait"
          /\ pending' = Request(text, template)
          /\ UNCHANGED <<task, nWorkers, worker, dialogValue, heard, slots>>
     ELSE StartWorker(task, text, template)
  /\ UNCHANGED <<emitted, queue, preview_manager, warning, exportVars, sideVars>>

\* lines 302-324 with the cache cleared for the new render
UpdatePreviewClears(text, template) ==
  /\ mainPc = "idle"
  /\ nWorkers < MaxWorkers
  /\ IF worker # 0 /\ IsRunning(worker)
     THEN /\ task' = [task EXCEPT ![worker] = Cancelled(@)]
          /\ mainPc' = "wait"
          /\ pending' = Request(text, template)
          /\ UNCHANGED <<nWorkers, worker, dialogValue, heard, slots>>
     ELSE StartWorker(task, text, template)
  /\ preview_manager' = SetPages(<<>>)
  /\ UNCHANGED <<emitted, queue, warning, exportVars, sideVars>>

\* lines 302-324.  With a running worker the call sets its flag (line 306)
\* and blocks in wait(100) (line 307); without one it goes straight on.
UpdatePreviewCall(text, template) ==
  /\ mainPc = "idle"
  /\ nWorkers < MaxWorkers
  /\ IF worker # 0 /\ IsRunning(worker)
     THEN /\ task' = [task EXCEPT ![worker] = Cancelled(@)]
          /\ mainPc' = "wait"
          /\ pending' = Request(text, template)
          /\ UNCHANGED <<nWorkers, worker, dialogValue, heard, slots>>
     ELSE StartWorker(task, text, template)
  /\ UNCHANGED <<emitted, queue, preview_manager, warning, exportVars>>

\* the call of lines 302-324 on its own, the window left as it is
UpdatePreview(text, template) ==
  /\ UpdatePreviewCall(text, template)
  /\ UNCHANGED sideVars

\* line 307 as an unbounded wait(): it returns only when the worker has
\* finished
UpdatePreviewResumeJoins ==
  /\ mainPc = "wait"
  /\ ~IsRunning(worker)
  /\ StartWorker(task, pending.text, pending.template)
  /\ UNCHANGED <<emitted, queue, preview_manager, warning, exportVars, sideVars>>

\* line 307 returns: the worker has finished, or the 100 ms have passed
\* while it has not; lines 309-324 follow in both cases.
UpdatePreviewResume ==
  /\ mainPc = "wait"
  /\ StartWorker(task, pending.text, pending.template)
  /\ UNCHANGED <<emitted, queue, preview_manager, warning, exportVars, sideVars>>

\* line 321: the cancel button of the progress dialog of worker w
DialogCancel(w) ==
  /\ mainPc = "idle"
  /\ w <= nWorkers
  /\ ~task[w].is_cancelled
  /\ task' = [task EXCEPT ![w] = Cancelled(@)]
  /\ UNCHANGED <<emitted, nWorkers, worker, mainPc, pending, queue, heard,
                 preview_manager, dialogValue, warning, slots, exportVars, sideVars>>

\* ---------------------------------------------- MainWindow.export_image
\* the texts the editor may hold when an export is asked for
ExportTexts == {EmptyText, Chars(1)}

\* lines 1338-1449.  An empty editor gives a warning and nothing else
\* (1341-1343); otherwise the settings are adjusted as in create_template
\* (1378-1392), the progress bar is shown, and a worker is created,
\* connected to handle_result and handle_error, and started.  A worker of
\* an earlier export is left alone.
ExportImage(text, settings) ==
  /\ mainPc = "idle"
  /\ nWorkers < MaxWorkers
  /\ IF text = EmptyText
     THEN /\ warning' = EnterTextMsg
          /\ UNCHANGED <<task, nWorkers, dialogValue, heard, slots,
                         worker_thread, progress_bar>>
     ELSE LET n == nWorkers + 1
          IN  /\ warning' = IF settings.line_spacing <= settings.font_size
                            THEN AdjustedMsg ELSE warning
              /\ progress_bar' = [visible |-> TRUE, value |-> 0]
              /\ task' = [task EXCEPT
                            ![n] = NewTask(text, CreateTemplate(settings))]
              /\ worker_thread' = n
              /\ nWorkers' = n
              /\ dialogValue' = [dialogValue EXCEPT ![n] = 0]
              /\ heard' = [heard EXCEPT ![n] = FALSE]
              /\ slots' = [slots EXCEPT ![n] = "export"]
  /\ UNCHANGED <<emitted, worker, mainPc, pending, queue, preview_manager,
                 critical, exported, sideVars>>

\* lines 1414-1419 with the test of line 1416 left out
HandleResultUnguarded(images) ==
  /\ progress_bar' = [progress_bar EXCEPT !.visible = FALSE]
  /\ \/ /\ exported' = Append(exported, images)
        /\ UNCHANGED critical
     \/ /\ critical' = ExportFailedMsg
        /\ UNCHANGED exported

\* lines 1414-1434: no images is an error (1416-1419); otherwise
\* FileManager.export_images writes the pages or raises
HandleResult(images) ==
  /\ progress_bar' = [progress_bar EXCEPT !.visible = FALSE]
  /\ \/ /\ images = <<>>
        /\ critical' = NoImagesMsg
        /\ UNCHANGED exported
     \/ /\ images # <<>>
        /\ exported' = Append(exported, images)
        /\ UNCHANGED critical
     \/ /\ images # <<>>
        /\ critical' = ExportFailedMsg
        /\ UNCHANGED exported

\* lines 1437-1444
HandleError(error_msg) ==
  /\ progress_bar' = [progress_bar EXCEPT !.visible = FALSE]
  /\ critical' = ErrorText(error_msg)
  /\ UNCHANGED exported

\* lines 316-318: the slots of a worker of the preview
PreviewSlots(e) ==
  /\ dialogValue' = IF e.kind = "progress"
                    THEN [dialogValue EXCEPT ![e.task] = e.sig.progress]
                    ELSE dialogValue
  /\ preview_manager' =
       IF e.kind = "result"
       THEN HandlePreviewResult(preview_manager, e.sig.images)
       ELSE IF e.kind = "error"
       THEN HandlePreviewError(preview_manager, e.sig.msg)
       ELSE preview_manager
  /\ warning' = WarningShown(e.sig)
  /\ UNCHANGED exportVars

\* lines 1410-1411 and 1442-1443: the slots of a worker of the export
ExportSlots(e) ==
  /\ \/ /\ e.kind = "progress"
        /\ progress_bar' = [progress_bar EXCEPT !.value = e.sig.progress]
        /\ dialogValue' = [dialogValue EXCEPT ![e.task] = e.sig.progress]
        /\ UNCHANGED <<critical, exported>>
     \/ /\ e.kind = "result"
        /\ HandleResult(e.sig.images)
        /\ UNCHANGED dialogValue
     \/ /\ e.kind = "error"
        /\ HandleError(e.sig.msg)
        /\ UNCHANGED dialogValue
  /\ UNCHANGED <<preview_manager, warning, worker_thread>>

\* The event loop of the interactive thread handles the oldest queued
\* signal with the slots connected to the worker that emitted it.
DeliverEvent ==
  /\ mainPc = "idle"
  /\ queue # <<>>
  /\ LET e == Head(queue)
     IN  /\ queue' = Tail(queue)
         /\ heard' = [heard EXCEPT ![e.task] = TRUE]
         /\ \/ slots[e.task] = "preview" /\ PreviewSlots(e)
            \/ slots[e.task] = "export" /\ ExportSlots(e)
  /\ UNCHANGED <<task, emitted, nWorkers, worker, mainPc, pending, slots,
                 sideVars>>

\* ------------------------------------------------ the rest of the window
\* lines 1171-1174 and 1234-1235: text mode, no timer running
NoWindow ==
  [radio_preview |-> FALSE, timer |-> FALSE, text |-> EmptyText,
   settings |-> ValidTemplate, calls |-> 0, timeout |-> "none"]
NoNav == [call |-> "none", arg |-> 0, returned |-> FALSE]
NoTempl ==
  [pc |-> "idle", settings |-> ValidTemplate, template |-> ValidTemplate]
NoImport ==
  [pc |-> "idle", ext |-> ".txt", file |-> "empty", encoding |-> 1,
   text |-> EmptyText, error |-> "none"]
NoBatch == [pc |-> "idle"]

\* no method of the rest of the window has been called
SideIdle ==
  /\ window = NoWindow
  /\ nav = NoNav
  /\ templ = NoTempl
  /\ importer = NoImport
  /\ batch = NoBatch

\* ------------------------------------------------------- specification
Init ==
  /\ task = [w \in Workers |-> NoTask]
  /\ emitted = [w \in Workers |-> <<>>]
  /\ nWorkers = 0
  /\ worker = 0
  /\ mainPc = "idle"
  /\ pending = NoRequest
  /\ queue = <<>>
  /\ heard = [w \in Workers |-> FALSE]
  /\ preview_manager = [pages |-> <<>>, current_page |-> 0]
  /\ dialogValue = [w \in Workers |-> 0]
  /\ warning = NoMsg
  /\ slots = [w \in Workers |-> "none"]
  /\ worker_thread = 0
  /\ progress_bar = [visible |-> FALSE, value |-> 0]
  /\ critical = NoMsg
  /\ exported = <<>>
  /\ SideIdle

WorkerStep(w) ==
  \/ RunStart(w)
  \/ RunNextPage(w)
  \/ RunCheckCancel(w)
  \/ RunBody(w)
  \/ RunFinalCheck(w)
  \/ RunEmit100(w)
  \/ RunEmitResult(w)
  \/ RunExcept(w)

Next ==
  \/ \E r \in PreviewRequests : UpdatePreview(r.text, r.template)
  \/ UpdatePreviewResume
  \/ \E w \in Workers : DialogCancel(w)
  \/ DeliverEvent
  \/ \E w \in Workers : WorkerStep(w)

Spec == Init /\ [][Next]_vars

\* The pipeline with fair scheduling: every started thread keeps being
\* scheduled.  Nothing is assumed about the interactive thread.
FairSpec ==
  /\ Spec
  /\ \A w \in Workers : WF_vars(WorkerStep(w))

\* The export alone: the window asked to export again and again.
ExportNext ==
  \/ \E text \in ExportTexts, settings \in Settings \cup {TightSettings} :
       ExportImage(text, settings)
  \/ \E w \in Workers : DialogCancel(w)
  \/ DeliverEvent
  \/ \E w \in Workers : WorkerStep(w)

ExportSpec == Init /\ [][ExportNext]_vars

\* lines 1557-1566: the window closes.  save_settings touches no state of
\* the model; the worker held in self.worker_thread is cancelled if it is
\* running and waited for at most a second; nothing else is looked at.
CloseEvent ==
  /\ mainPc = "idle"
  /\ mainPc' = "closed"
  /\ task' = IF worker_thread # 0 /\ IsRunning(worker_thread)
             THEN [task EXCEPT ![worker_thread] = Cancelled(@)]
             ELSE task
  /\ UNCHANGED <<emitted, nWorkers, worker, pending, queue, heard,
                 preview_manager, dialogValue, warning, slots, exportVars,
                 sideVars>>

\* The window with the preview and the export, until it is closed.
WindowNext ==
  \/ Next
  \/ \E text \in ExportTexts, settings \in Settings :
       ExportImage(text, settings)
  \/ CloseEvent

WindowSpec == Init /\ [][WindowNext]_vars

\* ------------------------------------------- a single task, run alone
\* One WorkerThread, constructed with any text and template, connected to
\* the slots of the preview or of the export, and started; the preview
\* cache is empty or holds a page of an earlier preview; cancel() may be
\* called at any moment; the signals are handled in order.
EarlierPage == [kind |-> "page", task |-> 0, no |-> 1, msg |-> NoMsg]
LaterPage == [kind |-> "page", task |-> 0, no |-> 2, msg |-> NoMsg]
\* the cache before the task: empty, one page, or two pages with the
\* second one shown (after next_page)
Caches ==
  {[pages |-> <<>>, current_page |-> 0],
   SetPages(<<EarlierPage>>),
   [pages |-> <<EarlierPage, LaterPage>>, current_page |-> 1]}

TaskInit ==
  /\ \E text \in Texts, template \in Templates :
        task = [w \in Workers |->
                  IF w = 1 THEN NewTask(text, template) ELSE NoTask]
  /\ emitted = [w \in Workers |-> <<>>]
  /\ nWorkers = 1
  /\ mainPc = "idle"
  /\ pending = NoRequest
  /\ queue = <<>>
  /\ heard = [w \in Workers |-> FALSE]
  /\ preview_manager \in Caches
  /\ dialogValue = [w \in Workers |-> 0]
  /\ warning = NoMsg
  /\ critical = NoMsg
  /\ exported = <<>>
  /\ SideIdle
  /\ \/ /\ slots = [w \in Workers |-> IF w = 1 THEN "preview" ELSE "none"]
        /\ worker = 1
        /\ worker_thread = 0
        /\ progress_bar = [visible |-> FALSE, value |-> 0]
     \/ /\ slots = [w \in Workers |-> IF w = 1 THEN "export" ELSE "none"]
        /\ worker = 0
        /\ worker_thread = 1
        /\ progress_bar = [visible |-> TRUE, value |-> 0]

TaskNext ==
  \/ RunStart(1)
  \/ RunNextPageIf(1, task[1].yielded < MaxTaskPages)
  \/ RunCheckCancel(1)
  \/ RunBody(1)
  \/ RunFinalCheck(1)
  \/ RunEmit100(1)
  \/ RunEmitResult(1)
  \/ RunExcept(1)
  \/ DialogCancel(1)
  \/ DeliverEvent

TaskSpec == TaskInit /\ [][TaskNext]_vars

\* --------------------------------------- a single task of many pages
\* One WorkerThread for a text that the renderer lays out on up to
\* MaxProgressPages pages.
ProgressInit ==
  /\ \E text \in ProgressTexts :
        task = [w \in Workers |->
                  IF w = 1 THEN NewTask(text, ValidTemplate) ELSE NoTask]
  /\ emitted = [w \in Workers |-> <<>>]
  /\ nWorkers = 1
  /\ worker = 1
  /\ mainPc = "idle"
  /\ pending = NoRequest
  /\ queue = <<>>
  /\ heard = [w \in Workers |-> FALSE]
  /\ preview_manager = [pages |-> <<>>, current_page |-> 0]
  /\ dialogValue = [w \in Workers |-> 0]
  /\ warning = NoMsg
  /\ slots = [w \in Workers |-> IF w = 1 THEN "preview" ELSE "none"]
  /\ worker_thread = 0
  /\ progress_bar = [visible |-> FALSE, value |-> 0]
  /\ critical = NoMsg
  /\ exported = <<>>
  /\ SideIdle

ProgressNext ==
  \/ RunStart(1)
  \/ RunNextPageIf(1, task[1].yielded < MaxProgressPages)
  \/ RunCheckCancel(1)
  \/ RunBody(1)
  \/ RunFinalCheck(1)
  \/ RunEmit100(1)
  \/ RunEmitResult(1)
  \/ RunExcept(1)
  \/ DialogCancel(1)
  \/ DeliverEvent

ProgressSpec == ProgressInit /\ [][ProgressNext]_vars

\* ------------------------------------------- create_template, alone
\* lines 1123 and 1086-1090: the ranges of the spin boxes of the font size
\* and of the line spacing
FontSizeMin == 1
FontSizeMax == 500
LineSpacingMin == 60
LineSpacingMax == 500
AllSettings ==
  [font_size : FontSizeMin..FontSizeMax,
   line_spacing : LineSpacingMin..LineSpacingMax]

\* create_template has been called with the settings of the window
TemplateInit ==
  /\ task = [w \in Workers |-> NoTask]
  /\ emitted = [w \in Workers |-> <<>>]
  /\ nWorkers = 0
  /\ worker = 0
  /\ mainPc = "idle"
  /\ pending = NoRequest
  /\ queue = <<>>
  /\ heard = [w \in Workers |-> FALSE]
  /\ preview_manager = [pages |-> <<>>, current_page |-> 0]
  /\ dialogValue = [w \in Workers |-> 0]
  /\ warning = NoMsg
  /\ slots = [w \in Workers |-> "none"]
  /\ worker_thread = 0
  /\ progress_bar = [visible |-> FALSE, value |-> 0]
  /\ critical = NoMsg
  /\ exported = <<>>
  /\ window = NoWindow
  /\ nav = NoNav
  /\ importer = NoImport
  /\ batch = NoBatch
  /\ \E settings \in AllSettings :
       templ = [pc |-> "called", settings |-> settings,
                template |-> settings]

\* lines 1484-1507: the template is returned
CreateTemplateReturns ==
  /\ templ.pc = "called"
  /\ templ' = [templ EXCEPT !.pc = "returned",
                            !.template = CreateTemplate(templ.settings)]
  /\ UNCHANGED <<task, emitted, nWorkers, worker, mainPc, pending, queue,
                 heard, preview_manager, dialogValue, warning, slots,
                 exportVars, window, nav, importer, batch>>

\* lines 1464-1481 and 1509-1510: the background or the font cannot be
\* loaded and create_template raises
CreateTemplateRaises ==
  /\ templ.pc = "called"
  /\ templ' = [templ EXCEPT !.pc = "raised"]
  /\ UNCHANGED <<task, emitted, nWorkers, worker, mainPc, pending, queue,
                 heard, preview_manager, dialogValue, warning, slots,
                 exportVars, window, nav, importer, batch>>

TemplateNext == CreateTemplateReturns \/ CreateTemplateRaises

TemplateSpec == TemplateInit /\ [][TemplateNext]_vars

\* --------------------------------------------- FileManager.import_file
\* line 843: the encodings tried for a .txt file, in this order
Encodings == <<"utf-8", "gbk", "gb2312", "utf-16", "ascii">>

\* what open() and read() with one encoding do with a file: they return
\* a text or raise
Read(text) == [error |-> "none", text |-> text]
Fails(kind) == [error |-> kind, text |-> EmptyText]

\* Files, each with what CPython's codecs do with it under the five
\* encodings: the empty file, ASCII bytes, Chinese text in UTF-8, in GBK
\* and in UTF-16, a character of GBK outside GB2312, a lone byte-order
\* mark, invalid bytes, and so on.
Files ==
  {[name |-> "empty",
    read |-> <<Read(EmptyText), Read(EmptyText), Read(EmptyText),
               Read(EmptyText), Read(EmptyText)>>],
   [name |-> "ascii",
    read |-> <<Read(<<"t1">>), Read(<<"t1">>), Read(<<"t1">>),
               Fails("UnicodeDecodeError"), Read(<<"t1">>)>>],
   [name |-> "utf8_cjk",
    read |-> <<Read(<<"t2">>), Fails("UnicodeDecodeError"), Fails("UnicodeDecodeError"),
               Fails("UnicodeError"), Fails("UnicodeDecodeError")>>],
   [name |-> "gbk_cjk",
    read |-> <<Fails("UnicodeDecodeError"), Read(<<"t2">>), Read(<<"t2">>),
               Fails("UnicodeError"), Fails("UnicodeDecodeError")>>],
   [name |-> "gbk_only",
    read |-> <<Fails("UnicodeDecodeError"), Read(<<"t3">>), Fails("UnicodeDecodeError"),
               Fails("UnicodeError"), Fails("UnicodeDecodeError")>>],
   [name |-> "utf16_bom",
    read |-> <<Fails("UnicodeDecodeError"), Fails("UnicodeDecodeError"), Fails("UnicodeDecodeError"),
               Read(<<"t2">>), Fails("UnicodeDecodeError")>>],
   [name |-> "bom_only",
    read |-> <<Fails("UnicodeDecodeError"), Fails("UnicodeDecodeError"), Fails("UnicodeDecodeError"),
               Read(EmptyText), Fails("UnicodeDecodeError")>>],
   [name |-> "utf8_bom",
    read |-> <<Read(<<"t4">>), Fails("UnicodeDecodeError"), Fails("UnicodeDecodeError"),
               Fails("UnicodeDecodeError"), Fails("UnicodeDecodeError")>>],
   [name |-> "ff",
    read |-> <<Fails("UnicodeDecodeError"), Fails("UnicodeDecodeError"), Fails("UnicodeDecodeError"),
               Fails("UnicodeDecodeError"), Fails("UnicodeDecodeError")>>],
   [name |-> "latin",
    read |-> <<Fails("UnicodeDecodeError"), Fails("UnicodeDecodeError"), Fails("UnicodeDecodeError"),
               Fails("UnicodeError"), Fails("UnicodeDecodeError")>>],
   [name |-> "nul",
    read |-> <<Read(<<"t5">>), Read(<<"t5">>), Read(<<"t5">>),
               Fails("UnicodeError"), Read(<<"t5">>)>>],
   [name |-> "newline",
    read |-> <<Read(<<"t6">>), Read(<<"t6">>), Read(<<"t6">>),
               Fails("UnicodeDecodeError"), Read(<<"t6">>)>>],
   [name |-> "utf8_3",
    read |-> <<Read(<<"t8">>), Read(<<"t9">>), Read(<<"t9">>),
               Fails("UnicodeError"), Fails("UnicodeDecodeError")>>],
   [name |-> "utf16be_bom",
    read |-> <<Fails("UnicodeDecodeError"), Fails("UnicodeDecodeError"), Fails("UnicodeDecodeError"),
               Read(<<"t10">>), Fails("UnicodeDecodeError")>>]}

FileNamed(name) == CHOOSE f \in Files : f.name = name

\* suffixes: text, the two parsed formats, old Office, anything else
Suffixes == {".txt", ".docx", ".pdf", ".doc", ".xls", ".ppt", ".md"}

\* import_file has been called with a path
ImportInit ==
  /\ task = [w \in Workers |-> NoTask]
  /\ emitted = [w \in Workers |-> <<>>]
  /\ nWorkers = 0
  /\ worker = 0
  /\ mainPc = "idle"
  /\ pending = NoRequest
  /\ queue = <<>>
  /\ heard = [w \in Workers |-> FALSE]
  /\ preview_manager = [pages |-> <<>>, current_page |-> 0]
  /\ dialogValue = [w \in Workers |-> 0]
  /\ warning = NoMsg
  /\ slots = [w \in Workers |-> "none"]
  /\ worker_thread = 0
  /\ progress_bar = [visible |-> FALSE, value |-> 0]
  /\ critical = NoMsg
  /\ exported = <<>>
  /\ window = NoWindow
  /\ nav = NoNav
  /\ templ = NoTempl
  /\ batch = NoBatch
  /\ \E f \in Files, ext \in Suffixes :
       importer = [pc |-> "called", ext |-> ext, file |-> f.name,
                   encoding |-> 1, text |-> EmptyText, error |-> "none"]

ImportFrame ==
  UNCHANGED <<task, emitted, nWorkers, worker, mainPc, pending, queue,
              heard, preview_manager, dialogValue, warning, slots,
              exportVars, window, nav, templ, batch>>

\* lines 844-850: one round of the loop over the encodings.  A text read
\* ends the loop; UnicodeDecodeError goes on to the next encoding; any
\* other exception leaves the loop for the handler of line 880.
ImportTryEncoding ==
  /\ importer.pc = "called"
  /\ importer.ext = ".txt"
  /\ LET got == FileNamed(importer.file).read[importer.encoding]
     IN  importer' =
           IF got.error = "none"
           THEN [importer EXCEPT !.text = got.text, !.pc = "read"]
           ELSE IF got.error = "UnicodeDecodeError"
           THEN IF importer.encoding < Len(Encodings)
                THEN [importer EXCEPT !.encoding = @ + 1]
                ELSE [importer EXCEPT !.pc = "read"]
           ELSE [importer EXCEPT !.pc = "raised", !.error = got.error]
  /\ ImportFrame

\* lines 852-853 and 878: after the loop an empty text raises the decode
\* failure, any other text is returned
ImportAfterLoop ==
  /\ importer.pc = "read"
  /\ importer' =
       IF importer.text = EmptyText
       THEN [importer EXCEPT !.pc = "raised", !.error = "cannot_decode"]
       ELSE [importer EXCEPT !.pc = "returned"]
  /\ ImportFrame

\* lines 855-876: the other suffixes.  The parsers of .docx and .pdf
\* return a text or raise; old Office formats and unknown suffixes raise.
ImportOtherSuffix ==
  /\ importer.pc = "called"
  /\ importer.ext # ".txt"
  /\ \/ /\ importer.ext \in {".docx", ".pdf"}
        /\ \E text \in {EmptyText, <<"parsed">>} :
             importer' = [importer EXCEPT !.pc = "returned", !.text = text]
     \/ /\ importer.ext \in {".docx", ".pdf"}
        /\ importer' = [importer EXCEPT !.pc = "raised", !.error = "parser"]
     \/ /\ importer.ext \in {".doc", ".xls", ".ppt"}
        /\ importer' = [importer EXCEPT !.pc = "raised",
                                        !.error = "old_office"]
     \/ /\ importer.ext \notin {".docx", ".pdf", ".doc", ".xls", ".ppt"}
        /\ importer' = [importer EXCEPT !.pc = "raised",
                                        !.error = "unsupported"]
  /\ ImportFrame

ImportNext == ImportTryEncoding \/ ImportAfterLoop \/ ImportOtherSuffix

ImportSpec == ImportInit /\ [][ImportNext]_vars

\* ------------------------------------------- the view, text or preview
\* The interactive thread runs one handler at a time: window.calls counts
\* the calls of MainWindow.update_preview the running handler has still to
\* make, and no other handler starts before it is 0.
HandlerDone == mainPc = "idle" /\ window.calls = 0

ViewFrame == UNCHANGED <<nav, templ, importer, batch>>

PipelineFrame ==
  UNCHANGED <<task, emitted, nWorkers, worker, mainPc, pending, queue,
              heard, preview_manager, dialogValue, warning, slots,
              exportVars>>

\* lines 1267-1295 without the test of line 1270
MainUpdatePreviewUnguarded(w) ==
  /\ UpdatePreviewCall(PreviewText(w.text), CreateTemplate(w.settings))
  /\ window' = w
  /\ ViewFrame

\* lines 1267-1295, where w is the window as the call finds and leaves it:
\* it returns at line 1272 unless the preview radio is checked, and
\* submits the shown text and the template of the settings otherwise
MainUpdatePreview(w) ==
  /\ IF w.radio_preview
     THEN UpdatePreviewCall(PreviewText(w.text), CreateTemplate(w.settings))
     ELSE PipelineFrame
  /\ window' = w
  /\ ViewFrame

\* lines 1248-1258, reached from textChanged, valueChanged and the combo
\* boxes (lines 1094, 1130, 1213-1227): the edit is made and the timer is
\* started in preview mode only
DelayedPreviewUpdate(text, settings) ==
  /\ HandlerDone
  /\ window' = [window EXCEPT !.text = text, !.settings = settings,
                              !.timer = IF window.radio_preview
                                        THEN TRUE ELSE @]
  /\ PipelineFrame
  /\ ViewFrame

\* line 1236: the single-shot timer fires; window.timeout keeps what the
\* last timeout found, the preview ("submitted") or the text ("returned")
TimerFires ==
  /\ HandlerDone
  /\ window.timer
  /\ MainUpdatePreview(
       [window EXCEPT !.timer = FALSE,
                      !.timeout = IF window.radio_preview
                                  THEN "submitted" ELSE "returned"])

\* the user picks the other radio button.  Both buttons emit toggled, the
\* one that loses the check first, and on_view_changed (lines 1619-1625)
\* runs for each: towards the preview that is two calls of
\* update_preview, the first one here; towards the text it is none.
ViewSwitch ==
  /\ HandlerDone
  /\ IF window.radio_preview
     THEN /\ window' = [window EXCEPT !.radio_preview = FALSE]
          /\ PipelineFrame
          /\ ViewFrame
     ELSE MainUpdatePreview([window EXCEPT !.radio_preview = TRUE,
                                          !.calls = 1])

\* lines 1260-1265: setChecked(True) toggles the buttons as a click does
\* when the text was shown, and one more call of update_preview follows
ForcePreviewUpdate ==
  /\ HandlerDone
  /\ IF window.radio_preview
     THEN MainUpdatePreview(window)
     ELSE MainUpdatePreview([window EXCEPT !.radio_preview = TRUE,
                                          !.calls = 2])

\* the running handler makes its next call of update_preview
NextUpdateCall ==
  /\ mainPc = "idle"
  /\ window.calls > 0
  /\ MainUpdatePreview([window EXCEPT !.calls = @ - 1])

ViewNext ==
  \/ \E text \in EditorTexts, settings \in Settings :
       DelayedPreviewUpdate(text, settings)
  \/ TimerFires
  \/ ViewSwitch
  \/ ForcePreviewUpdate
  \/ NextUpdateCall
  \/ UpdatePreviewResume
  \/ HandlerDone /\ \E w \in Workers : DialogCancel(w)
  \/ HandlerDone /\ DeliverEvent
  \/ \E w \in Workers : WorkerStep(w)

\* The window as constructed, the text shown and the cache empty, or later
\* with the preview shown, an earlier render in the cache and no task
\* left running.
ViewInit ==
  /\ task = [w \in Workers |-> NoTask]
  /\ emitted = [w \in Workers |-> <<>>]
  /\ nWorkers = 0
  /\ worker = 0
  /\ mainPc = "idle"
  /\ pending = NoRequest
  /\ queue = <<>>
  /\ heard = [w \in Workers |-> FALSE]
  /\ dialogValue = [w \in Workers |-> 0]
  /\ warning = NoMsg
  /\ slots = [w \in Workers |-> "none"]
  /\ worker_thread = 0
  /\ progress_bar = [visible |-> FALSE, value |-> 0]
  /\ critical = NoMsg
  /\ exported = <<>>
  /\ nav = NoNav /\ templ = NoTempl /\ importer = NoImport /\ batch = NoBatch
  /\ \/ window = NoWindow /\ preview_manager = SetPages(<<>>)
     \/ /\ window = [NoWindow EXCEPT !.radio_preview = TRUE]
        /\ preview_manager = SetPages(<<EarlierPage>>)

ViewSpec == ViewInit /\ [][ViewNext]_vars

\* ------------------------------------------------------- batch_export
\* The QProgressDialog of line 1995, as constructed and shown (line 1997):
\* the bar has no value yet, nothing is cancelled.
NewDialog(total_tasks) ==
  [maximum |-> total_tasks, value |-> 0 - 1, canceled |-> FALSE,
   shown_once |-> FALSE, set_value_called |-> FALSE, visible |-> TRUE]

\* QProgressDialog.reset(): the bar is reset, the flag cleared and, with
\* autoClose (the default) or on a cancel, the dialog hidden
ResetDialog(d) ==
  [d EXCEPT !.value = 0 - 1, !.canceled = FALSE, !.shown_once = FALSE,
            !.set_value_called = FALSE, !.visible = FALSE]

\* QProgressDialog.cancel(), the slot of the cancel button: reset, then
\* the flag is set
CancelDialog(d) == [ResetDialog(d) EXCEPT !.canceled = TRUE]

\* progress.setValue(progress) (lines 2023, 2058, 2064).  A call with the
\* value the bar has returns at once.  Shown by an earlier call, the
\* modal dialog processes the pending events, a click on its cancel
\* button among them; otherwise a value above the minimum shows it when
\* the time estimate asks for that (need_show).  The maximum resets the
\* dialog (autoReset is the default).
SetValue(d, progress, click, need_show) ==
  IF d.set_value_called /\ progress = d.value THEN d
  ELSE LET bar == [d EXCEPT !.value = progress]
           acted ==
             IF bar.shown_once
             THEN IF click /\ bar.visible THEN CancelDialog(bar) ELSE bar
             ELSE [bar EXCEPT !.set_value_called = TRUE,
                              !.shown_once = progress # 0 /\ need_show,
                              !.visible = @ \/ (progress # 0 /\ need_show)]
       IN  IF ~bar.shown_once /\ progress = 0 THEN acted
           ELSE IF progress = d.maximum THEN ResetDialog(acted)
           ELSE acted

\* the (section, format) pair after the one the loops are at, or the end
AfterPair(b) ==
  IF b.fmt < b.formats THEN [b EXCEPT !.fmt = @ + 1, !.pc = "top"]
  ELSE IF b.section < b.sections
  THEN [b EXCEPT !.section = @ + 1, !.fmt = 1, !.pc = "top"]
  ELSE [b EXCEPT !.pc = "after"]

\* break at line 2028: the inner loop is left, the outer one goes on
AfterBreak(b) ==
  IF b.section < b.sections
  THEN [b EXCEPT !.section = @ + 1, !.fmt = 1, !.pc = "top"]
  ELSE [b EXCEPT !.pc = "after"]

BatchFrame ==
  UNCHANGED <<task, emitted, nWorkers, worker, mainPc, pending, queue,
              heard, preview_manager, dialogValue, warning, slots,
              worker_thread, critical, exported, window, nav, templ,
              importer>>

\* lines 1985-2018: the dialog is made for len(formats) tasks per section
\* and shown, the bar of the window shown at 0, the loops entered
BatchExport(sections, formats) ==
  /\ batch.pc = "idle"
  /\ batch' = [pc |-> "top", sections |-> sections, formats |-> formats,
               section |-> 1, fmt |-> 1, current_task |-> 0,
               progress |-> NewDialog(sections * formats),
               observed |-> 0, calls |-> <<>>, files |-> 0, errors |-> 0]
  /\ progress_bar' = [visible |-> TRUE, value |-> 0]
  /\ BatchFrame

\* lines 2022-2028 with the dialog reset when its cancellation is seen
BatchTopClearsFlag ==
  /\ batch.pc = "top"
  /\ \E click \in BOOLEAN, need_show \in BOOLEAN :
       LET d == SetValue(batch.progress, batch.current_task, click,
                         need_show)
       IN  batch' =
             IF d.canceled
             THEN AfterBreak([batch EXCEPT !.progress = ResetDialog(d),
                                           !.observed = batch.section])
             ELSE [batch EXCEPT !.progress = d, !.pc = "try"]
  /\ UNCHANGED progress_bar
  /\ BatchFrame

\* lines 2022-2028: the head of the inner loop.  batch.observed keeps the
\* section in which wasCanceled() first returned True (0: not yet).
BatchTop ==
  /\ batch.pc = "top"
  /\ \E click \in BOOLEAN, need_show \in BOOLEAN :
       LET d == SetValue(batch.progress, batch.current_task, click,
                         need_show)
       IN  batch' =
             IF d.canceled
             THEN AfterBreak([batch EXCEPT
                                !.progress = d,
                                !.observed = IF @ = 0 THEN batch.section
                                             ELSE @])
             ELSE [batch EXCEPT !.progress = d, !.pc = "try"]
  /\ UNCHANGED progress_bar
  /\ BatchFrame

\* lines 2030-2053: the renderer is invoked for the pair; it gives pages,
\* which are written ("images"), gives none (line 2034, an error and
\* continue), or it or the writer raises (line 2052)
BatchTry(outcome) ==
  /\ batch.pc = "try"
  /\ batch' = [batch EXCEPT
                 !.calls = Append(@, <<batch.section, batch.fmt>>),
                 !.files = IF outcome = "images" THEN @ + 1 ELSE @,
                 !.errors = IF outcome = "images" THEN @ ELSE @ + 1,
                 !.pc = "finally"]
  /\ UNCHANGED progress_bar
  /\ BatchFrame

\* lines 2056-2058, then the next pair
BatchFinally ==
  /\ batch.pc = "finally"
  /\ \E click \in BOOLEAN, need_show \in BOOLEAN :
       LET current_task == batch.current_task + 1
           d == SetValue(batch.progress, current_task, click, need_show)
       IN  batch' = AfterPair([batch EXCEPT !.current_task = current_task,
                                           !.progress = d])
  /\ UNCHANGED progress_bar
  /\ BatchFrame

\* lines 2060-2064: after the loops the bar of the window is hidden and
\* the dialog set to its maximum
BatchAfter ==
  /\ batch.pc = "after"
  /\ \E click \in BOOLEAN, need_show \in BOOLEAN :
       batch' = [batch EXCEPT
                   !.progress = SetValue(batch.progress,
                                         batch.progress.maximum, click,
                                         need_show),
                   !.pc = "returned"]
  /\ progress_bar' = [progress_bar EXCEPT !.visible = FALSE]
  /\ BatchFrame

BatchNext ==
  \/ \E sections \in 1..MaxSections, formats \in 1..MaxFormats :
       BatchExport(sections, formats)
  \/ BatchTop
  \/ \E outcome \in {"images", "none", "raise"} : BatchTry(outcome)
  \/ BatchFinally
  \/ BatchAfter

BatchSpec == Init /\ [][BatchNext]_vars

\* ------------------------------------------------ PreviewManager, alone
\* page lists of up to MaxNavPages images, each one of two images
NavImages == {Page(0, 1), Page(0, 2)}
NavPageLists ==
  UNION {[1..n -> NavImages] : n \in 0..MaxNavPages}

\* a PreviewManager has been constructed (lines 180-187)
NavInit ==
  /\ task = [w \in Workers |-> NoTask]
  /\ emitted = [w \in Workers |-> <<>>]
  /\ nWorkers = 0
  /\ worker = 0
  /\ mainPc = "idle"
  /\ pending = NoRequest
  /\ queue = <<>>
  /\ heard = [w \in Workers |-> FALSE]
  /\ preview_manager = [pages |-> <<>>, current_page |-> 0]
  /\ dialogValue = [w \in Workers |-> 0]
  /\ warning = NoMsg
  /\ slots = [w \in Workers |-> "none"]
  /\ worker_thread = 0
  /\ progress_bar = [visible |-> FALSE, value |-> 0]
  /\ critical = NoMsg
  /\ exported = <<>>
  /\ SideIdle

NavFrame ==
  UNCHANGED <<task, emitted, nWorkers, worker, mainPc, pending, queue,
              heard, dialogValue, warning, slots, exportVars, window,
              templ, importer, batch>>

\* lines 203-205
SetPagesCall(pages) ==
  /\ preview_manager' = SetPages(pages)
  /\ nav' = [call |-> "set_pages", arg |-> 0, returned |-> FALSE]
  /\ NavFrame

\* lines 212-216 with len(self.pages) for len(self.pages) - 1
NextPagePastEnd ==
  /\ IF preview_manager.current_page < Len(preview_manager.pages)
     THEN /\ preview_manager' =
               [preview_manager EXCEPT !.current_page = @ + 1]
          /\ nav' = [call |-> "next_page", arg |-> 0, returned |-> TRUE]
     ELSE /\ UNCHANGED preview_manager
          /\ nav' = [call |-> "next_page", arg |-> 0, returned |-> FALSE]
  /\ NavFrame

\* lines 212-216
NextPage ==
  /\ IF preview_manager.current_page < Len(preview_manager.pages) - 1
     THEN /\ preview_manager' =
               [preview_manager EXCEPT !.current_page = @ + 1]
          /\ nav' = [call |-> "next_page", arg |-> 0, returned |-> TRUE]
     ELSE /\ UNCHANGED preview_manager
          /\ nav' = [call |-> "next_page", arg |-> 0, returned |-> FALSE]
  /\ NavFrame

\* lines 218-222
PrevPage ==
  /\ IF preview_manager.current_page > 0
     THEN /\ preview_manager' =
               [preview_manager EXCEPT !.current_page = @ - 1]
          /\ nav' = [call |-> "prev_page", arg |-> 0, returned |-> TRUE]
     ELSE /\ UNCHANGED preview_manager
          /\ nav' = [call |-> "prev_page", arg |-> 0, returned |-> FALSE]
  /\ NavFrame

\* lines 224-229
GoToPage(page_num) ==
  /\ IF 0 <= page_num /\ page_num < Len(preview_manager.pages)
     THEN /\ preview_manager' =
               [preview_manager EXCEPT !.current_page = page_num]
          /\ nav' = [call |-> "go_to_page", arg |-> page_num,
                     returned |-> TRUE]
     ELSE /\ UNCHANGED preview_manager
          /\ nav' = [call |-> "go_to_page", arg |-> page_num,
                     returned |-> FALSE]
  /\ NavFrame

NavNext ==
  \/ \E pages \in NavPageLists : SetPagesCall(pages)
  \/ NextPage
  \/ PrevPage
  \/ \E page_num \in (0 - 1)..(MaxNavPages + 1) : GoToPage(page_num)

NavSpec == NavInit /\ [][NavNext]_vars

\* ------------------------------------------------- reading the logs
\* positions of the signals of one kind in the log of task w
SignalsOf(w, kind) == {i \in 1..Len(emitted[w]) : emitted[w][i].kind = kind}
Count(w, kind) == Cardinality(SignalsOf(w, kind))
Terminals(w) == SignalsOf(w, "result") \cup SignalsOf(w, "error")
ProgressValue(w, i) == emitted[w][i].progress
Emits100(w) == \E i \in SignalsOf(w, "progress") : ProgressValue(w, i) = 100
Done(w) == task[w].pc = "done"

\* a step of the interactive thread that handles the oldest queued signal
Handling == queue # <<>> /\ queue' = Tail(queue)

\* ------------------------------------------------------------ claims
\* C1: at most one WorkerThread created by the PreviewWidget is Running
\* (started, run() not yet returned) in every reachable state.
C1_AtMostOneRunning ==
  Cardinality({w \in Workers : IsRunning(w)}) <= 1

\* C2: a terminal signal of a superseded worker, which the subscriber
\* cannot tell from one of its successor (the slots of lines 317-318 carry
\* no task identity; a progress value goes to the dialog of its own task),
\* is never handled after a signal of a worker that replaced it.
C2_NoStaleSignalAfterSuccessor ==
  [][(Handling /\ Head(queue).kind \in {"result", "error"})
       => \A b \in Workers : b > Head(queue).task => ~heard[b]]_vars

\* C3: once update_preview(B) has followed update_preview(A) before A's
\* result was handled, handle_preview_result never runs with A's pages.
C3_SupersededResultNeverHandled ==
  [][(Handling /\ Head(queue).kind = "result")
       => Head(queue).task = nWorkers]_vars

\* C4: a task whose cancellation flag is set emits nothing further.
C4_NoEmissionAfterCancel ==
  [][\A w \in Workers : task[w].is_cancelled => emitted'[w] = emitted[w]]_vars

\* C5: a task for which cancel() was called while a test of the flag still
\* lay ahead of run() never emits resultReady, whatever it has buffered.
C5_CancelBeforeCheckNoResult ==
  \A w \in Workers : task[w].cancelAt = "early" => Count(w, "result") = 0

C5_Witness ==
  \E w \in Workers :
    /\ task[w].cancelAt = "early"
    /\ Done(w)
    /\ Len(task[w].result) >= 2

\* C6: per task resultReady fires at most once, errorOccurred at most once,
\* never both, and a finished task that fired neither was cancelled.
C6_OneOutcomePerTask ==
  \A w \in Workers :
    /\ Count(w, "result") <= 1
    /\ Count(w, "error") <= 1
    /\ Count(w, "result") + Count(w, "error") <= 1
    /\ (Done(w) /\ Terminals(w) = {}) => task[w].is_cancelled

C6_Witness ==
  \E w \in Workers : Done(w) /\ Terminals(w) = {} /\ task[w].yielded >= 1

\* C7 as stated: a finished, never cancelled task with non-empty text has
\* emitted exactly one terminal signal, and a result carries >= 1 page.
C7_NonEmptyResultOrError ==
  \A w \in Workers :
    /\ (Done(w) /\ ~task[w].is_cancelled /\ task[w].text # EmptyText)
         => Cardinality(Terminals(w)) = 1
    /\ \A i \in SignalsOf(w, "result") : emitted[w][i].images # <<>>

\* C7 amended: a finished, never cancelled task has emitted exactly one
\* terminal signal; a result carries as many pages as the renderer
\* yielded, so it is empty exactly when the renderer yielded none.
C7_OneTerminalResultHoldsYielded ==
  \A w \in Workers :
    /\ (Done(w) /\ ~task[w].is_cancelled) => Cardinality(Terminals(w)) = 1
    /\ \A i \in SignalsOf(w, "result") :
         Len(emitted[w][i].images) = task[w].yielded

C7_Witness ==
  \E w \in Workers :
    /\ Done(w) /\ ~task[w].is_cancelled
    /\ \E i \in SignalsOf(w, "result") : Len(emitted[w][i].images) >= 2

C9_ProgressMonotoneBounded ==
  \A w \in Workers :
    /\ \A i \in SignalsOf(w, "progress") : ProgressValue(w, i) \in 0..100
    /\ \A i, j \in SignalsOf(w, "progress") :
         (i < j) => ProgressValue(w, i) <= ProgressValue(w, j)

C9_Witness ==
  \E w \in Workers :
    /\ Count(w, "progress") >= 4
    /\ \E i, j \in SignalsOf(w, "progress") :
         i < j /\ ProgressValue(w, i) < ProgressValue(w, j) /\ ProgressValue(w, j) < 95

\* C10: no progress value of a task is emitted after its result or error.
C10_TerminalAfterLastProgress ==
  \A w \in Workers :
    \A i \in Terminals(w) : \A j \in SignalsOf(w, "progress") : j < i

C10_Witness ==
  \E w \in Workers :
    /\ Count(w, "error") = 1
    /\ Count(w, "progress") >= 1

\* C11: a result carries exactly the pages the renderer yielded for the
\* task, each once, in the order in which it yielded them.
C11_ResultIsPagesInOrder ==
  \A w \in Workers : \A i \in SignalsOf(w, "result") :
    emitted[w][i].images = [n \in 1..task[w].yielded |-> Page(w, n)]

C11_Witness ==
  \E w \in Workers : \E i \in SignalsOf(w, "result") :
    Len(emitted[w][i].images) = 3


\* the renderer has raised in task w (at its invocation or on a page)
Raised(w) == task[w].error_msg # NoMsg

\* C12: once the renderer has raised, run() is in its handler or has
\* returned; it emits errorOccurred exactly once, as its last signal, and
\* neither resultReady nor the progress value 100; it asks the renderer for
\* no further page and appends none.
C12_RaiseEndsInOneError ==
  /\ [](\A w \in Workers : Raised(w) =>
          /\ task[w].pc \in {"except", "done"}
          /\ Count(w, "error") = (IF Done(w) THEN 1 ELSE 0)
          /\ Done(w) => emitted[w][Len(emitted[w])].kind = "error"
          /\ Count(w, "result") = 0
          /\ ~Emits100(w))
  /\ [][\A w \in Workers : Raised(w) =>
          /\ task'[w].yielded = task[w].yielded
          /\ task'[w].result = task[w].result
          /\ task'[w].handwritten = task[w].handwritten
          /\ Raised(w)']_vars

C12_Witness ==
  \E w \in Workers :
    /\ Raised(w) /\ Done(w)
    /\ Len(task[w].result) >= 1
    /\ Count(w, "error") = 1


\* C13: every text handwrite() is called with is non-empty: it is the
\* placeholder when the task was constructed with the empty text, and the
\* constructor's text itself otherwise.
C13_RendererTextNeverEmpty ==
  \A w \in Workers : \A i \in 1..Len(task[w].handwritten) :
    /\ task[w].handwritten[i] # EmptyText
    /\ task[w].handwritten[i] =
         (IF task[w].arg_text = EmptyText THEN PlaceholderText
          ELSE task[w].arg_text)

C13_Witness ==
  \E w \in Workers :
    /\ task[w].arg_text = EmptyText
    /\ task[w].handwritten = <<PlaceholderText>>


\* C14: the message of an emitted error is the fixed clarified diagnostic
\* when the raw message of the failure contains both "font.size" and
\* "line_spacing", and the raw message itself otherwise.
C14_ErrorMessageClarified ==
  \A w \in Workers : \A i \in SignalsOf(w, "error") :
    /\ {"font.size", "line_spacing"} \subseteq task[w].error_msg
          => emitted[w][i].msg = ClarifiedMsg
    /\ ~({"font.size", "line_spacing"} \subseteq task[w].error_msg)
          => emitted[w][i].msg = task[w].error_msg

C14_Witness ==
  \E w \in Workers : \E i \in SignalsOf(w, "error") :
    /\ task[w].error_msg = SizeOnlyRawMsg
    /\ emitted[w][i].msg = SizeOnlyRawMsg


\* C16: whenever update_preview creates a worker while the worker it
\* replaces is still running, the replaced worker's flag is already set;
\* hence every running worker that has a successor is cancelled.
C16_CancelBeforeSuccessor ==
  /\ [](\A w \in Workers : w < nWorkers /\ IsRunning(w) => task[w].is_cancelled)
  /\ [][nWorkers' = nWorkers + 1 /\ worker # 0 /\ IsRunning(worker)
          => task[worker].is_cancelled /\ task'[worker].is_cancelled]_vars

C16_Witness ==
  /\ nWorkers = 2
  /\ IsRunning(1) /\ task[1].is_cancelled
  /\ task[2].pc \notin {"none", "start"}


\* C18: a submit that has cancelled the running worker and waits at line
\* 307 can always go on to create and start the new worker, whatever the
\* superseded worker does; it creates the worker for the request it was
\* called with.
C18_SubmitNeverBlocks ==
  /\ [](mainPc = "wait" => ENABLED UpdatePreviewResume)
  /\ [][mainPc = "wait" /\ mainPc' = "idle"
          => /\ nWorkers' = nWorkers + 1
             /\ task'[nWorkers'] = NewTask(pending.text, pending.template)]_vars

C18_Witness ==
  /\ nWorkers = 2
  /\ task[1].pc = "next" /\ task[1].yielded = 0
  /\ task[2].pc = "done"


\* a task that was started has emitted its terminal notification or has
\* been cancelled; both are permanent
Settled(w) ==
  task[w].pc = "none" \/ Terminals(w) # {} \/ task[w].is_cancelled

\* C17: under fair scheduling every started task that is never cancelled
\* emits a terminal notification (the renderer yields finitely many pages
\* or raises); this holds for the successor of a superseded task too.  As
\* a settled task stays settled, this is: again and again all tasks are
\* settled.
C17_UncancelledTaskTerminates ==
  []<>(\A w \in Workers : Settled(w))

C17_Witness ==
  /\ nWorkers = 2
  /\ IsRunning(1) /\ task[1].is_cancelled
  /\ ~task[2].is_cancelled /\ Done(2) /\ Terminals(2) # {}


\* C19: handwrite() is called at most once for a task, and not at all
\* for a task that was not submitted; handling a signal (an error in
\* particular) neither restarts a task nor creates one, so a new render
\* starts only with a new call of update_preview.
C19_RendererCalledOncePerTask ==
  /\ [](\A w \in Workers :
          Len(task[w].handwritten) <= (IF w <= nWorkers THEN 1 ELSE 0))
  /\ [][Handling => UNCHANGED <<task, nWorkers, worker>>]_vars
  /\ [][nWorkers' # nWorkers =>
          /\ nWorkers' = nWorkers + 1
          /\ task'[nWorkers'].pc = "start"
          /\ \/ mainPc = "wait"
             \/ mainPc = "idle" /\ ~(worker # 0 /\ IsRunning(worker))]_vars

C19_Witness ==
  \E w \in Workers :
    /\ Raised(w) /\ Done(w) /\ heard[w]
    /\ queue = <<>>
    /\ warning = OtherRawMsg
    /\ Len(task[w].handwritten) = 1


\* the progress signals emitted inside the loop (line 162), in order
LoopProgress(w) ==
  {i \in SignalsOf(w, "progress") : i <= Len(task[w].result)}

\* C20: with L the length of the text and step = max(1, L div 100), the
\* progress emitted after the k-th page is min(95, floor(k*step*100 / L));
\* a page whose loop-top test finds the flag set is neither appended nor
\* followed by a progress signal.
C20_ProgressIsFloorOfPercent ==
  \A w \in Workers :
    LET L == Len(task[w].text)
    IN  /\ \A k \in LoopProgress(w) :
             ProgressValue(w, k) =
               Min(95, (k * ProgressStep(L) * 100) \div L)
        /\ task[w].cancelAt = "early" /\ task[w].pc \in PastLastCheck
             => Cardinality(LoopProgress(w)) = Len(task[w].result)
        /\ Len(task[w].result) <= task[w].yielded


\* the interactive thread handles a resultReady that carries no page
HandlingEmptyResult ==
  /\ Handling
  /\ Head(queue).kind = "result"
  /\ Head(queue).sig.images = <<>>

\* C15: a result without pages is handled as an error.  The preview shows
\* the "no preview" warning and keeps its cache (an empty cache gets the
\* error image, never an empty page set); the export shows the "no
\* images" error and writes nothing.  A task that ended silently after a
\* cancellation leaves no such message.
C15_EmptyResultIsAnError ==
  /\ [][HandlingEmptyResult /\ slots[Head(queue).task] = "preview" =>
          /\ warning' = NoPreviewMsg
          /\ preview_manager' =
               (IF preview_manager.pages = <<>>
                THEN SetPages(<<ErrorImage(NoPreviewMsg)>>)
                ELSE preview_manager)
          /\ UNCHANGED exported]_vars
  /\ [][HandlingEmptyResult /\ slots[Head(queue).task] = "export" =>
          /\ critical' = NoImagesMsg
          /\ ~progress_bar'.visible
          /\ UNCHANGED <<exported, preview_manager>>]_vars
  /\ [](\A i \in 1..Len(exported) : exported[i] # <<>>)
  /\ [][preview_manager.pages # <<>> => preview_manager'.pages # <<>>]_vars
  /\ [](\A w \in Workers : Done(w) /\ emitted[w] = <<>> =>
          /\ task[w].is_cancelled
          /\ warning = NoMsg /\ critical = NoMsg)

C15_Witness ==
  /\ slots[1] = "export"
  /\ ~task[1].is_cancelled /\ Done(1) /\ task[1].yielded = 0
  /\ \E i \in SignalsOf(1, "result") : emitted[1][i].images = <<>>
  /\ queue = <<>>
  /\ critical = NoImagesMsg /\ exported = <<>>


\* the workers of the export that are running
RunningExports == {w \in Workers : slots[w] = "export" /\ IsRunning(w)}

\* C21: at most one worker of the export is running, and a running worker
\* of an earlier export has its flag set once a later one exists.
C21_AtMostOneExportRunning ==
  /\ Cardinality(RunningExports) <= 1
  /\ \A w \in RunningExports : w < worker_thread => task[w].is_cancelled


C23_CacheChangedOnlyByHandlers ==
  [][preview_manager' # preview_manager =>
        /\ Handling
        /\ Head(queue).kind \in {"result", "error"}
        /\ slots[Head(queue).task] = "preview"]_vars

C23_Witness ==
  /\ preview_manager.pages = <<Page(1, 1)>>
  /\ nWorkers = 2
  /\ Done(2)


\* C24: for all settings the window can hold, the template create_template
\* returns has a line spacing above its font size; the font size is the
\* one of the settings, and a line spacing already above it is kept.
C24_TemplateSpacingAboveSize ==
  templ.pc = "returned" =>
    /\ templ.template.line_spacing > templ.template.font_size
    /\ templ.template.font_size = templ.settings.font_size
    /\ templ.settings.line_spacing > templ.settings.font_size
         => templ.template.line_spacing = templ.settings.line_spacing
    /\ templ.settings.line_spacing <= templ.settings.font_size
         => templ.template.line_spacing = (3 * templ.settings.font_size) \div 2

C24_Witness ==
  /\ templ.pc = "returned"
  /\ templ.settings = [font_size |-> 61, line_spacing |-> 60]
  /\ templ.template.line_spacing = 91


\* the encodings that decode the file import_file was called with
Decoding ==
  {i \in 1..Len(Encodings) :
     FileNamed(importer.file).read[i].error = "none"}

\* C25: for a .txt file the decode failure is raised only when no
\* encoding decodes the file; when one does, import_file returns the text
\* of the first that does.
C25_DecodeFailureOnlyIfNoneDecodes ==
  importer.ext = ".txt" =>
    /\ importer.pc = "raised" /\ importer.error = "cannot_decode"
         => Decoding = {}
    /\ importer.pc \in {"returned", "raised"} /\ Decoding # {}
         => /\ importer.pc = "returned"
            /\ \E i \in Decoding :
                 /\ \A j \in Decoding : i <= j
                 /\ importer.text = FileNamed(importer.file).read[i].text


\* C26: once the window has closed, every worker that is still running
\* has its cancellation flag set.
C26_RunningWorkersCancelledAtClose ==
  mainPc = "closed" =>
    \A w \in Workers : IsRunning(w) => task[w].is_cancelled


\* the page a navigation call asks for, given the cache it is made on
NavTarget(call, arg, pm) ==
  IF call = "next_page" THEN pm.current_page + 1
  ELSE IF call = "prev_page" THEN pm.current_page - 1
  ELSE arg

\* C27: the current page of a PreviewManager is never negative and, when
\* there are pages, is the index of one of them; a navigation call whose
\* target is no index of a page returns False and changes nothing, any
\* other moves to its target and leaves the pages alone.
C27_CurrentPageInRange ==
  /\ [](/\ preview_manager.current_page >= 0
        /\ preview_manager.pages # <<>>
             => preview_manager.current_page < Len(preview_manager.pages))
  /\ [][nav'.call \in {"next_page", "prev_page", "go_to_page"} =>
          LET target == NavTarget(nav'.call, nav'.arg, preview_manager)
          IN  IF target \in 0..(Len(preview_manager.pages) - 1)
              THEN /\ nav'.returned
                   /\ preview_manager' =
                        [preview_manager EXCEPT !.current_page = target]
              ELSE /\ ~nav'.returned
                   /\ preview_manager' = preview_manager]_vars

C27_Witness ==
  /\ Len(preview_manager.pages) = 3
  /\ preview_manager.current_page = 2
  /\ nav.call = "next_page" /\ ~nav.returned


\* C28: handling an error notification of a preview task leaves a cache
\* that holds pages as it is, pages and current index; an empty cache
\* becomes the single error page of the message, with current index 0.
C28_ErrorKeepsShownPages ==
  [][Handling /\ Head(queue).kind = "error"
       /\ slots[Head(queue).task] = "preview" =>
        IF preview_manager.pages # <<>>
        THEN preview_manager' = preview_manager
        ELSE preview_manager' =
               [pages |-> <<ErrorImage(Head(queue).sig.msg)>>,
                current_page |-> 0]]_vars

C28_Witness ==
  /\ slots[1] = "preview"
  /\ SignalsOf(1, "error") # {}
  /\ Done(1) /\ queue = <<>>
  /\ warning # NoMsg
  /\ preview_manager =
       [pages |-> <<EarlierPage, LaterPage>>, current_page |-> 1]


\* C29: a preview task is submitted (PreviewWidget.update_preview is
\* entered: a worker is created or the wait for the previous one begins)
\* only with the preview radio checked, and the update timer is started
\* only with it checked; the timer firing in text mode submits nothing.
C29_NoSubmitInTextMode ==
  /\ [][nWorkers' > nWorkers \/ mainPc' = "wait" =>
          window'.radio_preview]_vars
  /\ [][window'.timer /\ ~window.timer => window.radio_preview]_vars
  /\ [][window.timer /\ ~window'.timer /\ ~window.radio_preview =>
          UNCHANGED <<task, nWorkers, worker, mainPc, pending>>]_vars

\* the timer started in preview mode has fired in text mode, with no second
\* task
C29_Witness ==
  /\ ~window.radio_preview /\ ~window.timer
  /\ window.timeout = "returned"
  /\ HandlerDone
  /\ nWorkers = 0


\* C30: once wasCanceled() has returned True in batch_export, the
\* renderer is invoked for no further (section, format) pair, of the
\* section at hand or of a later one: every later head of the inner loop
\* finds the dialog cancelled as well.
C30_NoRenderAfterCancelSeen ==
  /\ [][batch.pc # "idle" /\ batch.observed # 0 =>
          /\ batch'.calls = batch.calls
          /\ batch'.pc \in {"top", "after", "returned"}]_vars
  /\ [](batch.pc # "idle" /\ batch.observed # 0 =>
          \A i \in 1..Len(batch.calls) :
             \/ batch.calls[i][1] < batch.observed
             \/ batch.calls[i][1] = batch.observed)

\* cancellation seen at the third format of the first of two sections, and
\* the call has returned with the two renders made before it
C30_Witness ==
  /\ batch.pc = "returned"
  /\ batch.sections = 2 /\ batch.formats = 3
  /\ batch.observed = 1
  /\ batch.calls = <<<<1, 1>>, <<1, 2>>>>

====
